---------------------------- MODULE Spec2Model ----------------------------
(***************************************************************************)
(* A model of yt_v2.py: the entry filter (should_skip_entry), the retry    *)
(* executor (download_with_retries), the dedup ledger (load_db, save_db),  *)
(* the worker pool of process_playlist / worker_download_entry, and the    *)
(* request builders (build_ydl_opts, and baixar_video of yt.py).           *)
(*                                                                         *)
(* Strings are tuples of one-character strings, so that containment, glob  *)
(* matching and case folding are computed and not assumed.  A Python       *)
(* Optional is a tuple of length 0 (None) or 1 (the value).                *)
(***************************************************************************)
EXTENDS Integers, Sequences, FiniteSets, TLC

(***************************************************************************)
(* Bounds of the model.                                                    *)
(***************************************************************************)
MaxIdLen == 1
MaxNameLen == 2
MaxDur == 1
MaxDate == 2
MaxTitleLen == 2
MaxEntries == 2
MaxParallel == 2
MaxRetries == 4
MaxBackoff == 3

(***************************************************************************)
(* Defaults of the command line (build_arg_parser).                        *)
(***************************************************************************)
DefaultParallel == 1
DefaultRetries == 3
DefaultBackoff == 3

(***************************************************************************)
(* Strings.                                                                *)
(***************************************************************************)
Strings(chars, n) == UNION {[1..k -> chars] : k \in 0..n}

NonEmpty(S) == {s \in S : Len(s) > 0}

\* Python's  t in s  for strings: t is a contiguous part of s.
Contains(s, t) ==
    \E i \in 0..(Len(s) - Len(t)) : \A k \in 1..Len(t) : s[i + k] = t[k]

\* str.lower() on the letters of the model's alphabets.
LowerChar(c) == CASE c = "A" -> "a" [] c = "B" -> "b" [] OTHER -> c

lower(s) == [k \in 1..Len(s) |-> LowerChar(s[k])]

Some(v) == <<v>>
None == <<>>
\* Python truthiness of an Optional[int]: None and 0 are both false.
Truthy(opt) == opt # None /\ opt[1] # 0

(***************************************************************************)
(* Entry filter: should_skip_entry.                                        *)
(***************************************************************************)
\* fnmatch of one path component, as Path.glob applies it (POSIX, case
\* sensitive): "*" is any run of characters, "?" any one character, every
\* other character of the model's alphabets stands for itself.
RECURSIVE fnmatch(_, _)
fnmatch(name, pat) ==
    IF pat = <<>> THEN name = <<>>
    ELSE IF Head(pat) = "*"
         THEN \E k \in 0..Len(name) :
                 fnmatch(SubSeq(name, k + 1, Len(name)), Tail(pat))
         ELSE /\ name # <<>>
              /\ Head(pat) = "?" \/ Head(pat) = Head(name)
              /\ fnmatch(Tail(name), Tail(pat))

\* list(Path(dest).glob(pattern)): files and directories alike.
glob(dest, pattern) == {p \in dest : fnmatch(p.name, pattern)}

\* re.compile: of the model's pattern alphabet only "(" makes a pattern
\* invalid (an unterminated group, there being no ")").
re_error(pattern) == \E k \in 1..Len(pattern) : pattern[k] = "("

\* re.search(pattern, title, re.IGNORECASE) for a valid pattern: "." is any
\* character, a letter is itself in either case.
re_search(pattern, title) ==
    \E i \in 0..(Len(title) - Len(pattern)) :
        \A k \in 1..Len(pattern) :
            \/ pattern[k] = "."
            \/ LowerChar(pattern[k]) = LowerChar(title[i + k])

Decision(skip, reason) == [skip |-> skip, reason |-> reason]

should_skip_by_rules_no_max(entry, filters) ==
    IF Truthy(filters.min_duration) /\ entry.duration # None
       /\ entry.duration[1] < filters.min_duration[1]
    THEN Decision(TRUE, "duracao menor")
    ELSE Decision(FALSE, "ok")

\* The title rule with a fallback that compares the pattern and the title
\* as they are written.
should_skip_by_rules_fallback_exact(entry, filters) ==
    IF filters.match_title # <<>> /\ filters.match_regex
       /\ re_error(filters.match_title)
    THEN IF ~Contains(entry.title, filters.match_title)
         THEN Decision(TRUE, "titulo nao contem substring")
         ELSE Decision(FALSE, "ok")
    ELSE Decision(FALSE, "ok")

\* Lines 179-206: the duration, upload date and title checks.
should_skip_by_rules(entry, filters) ==
    LET dur == entry.duration
        upload_date == entry.upload_date
        title == entry.title
        match_title == filters.match_title
    IN  IF Truthy(filters.min_duration) /\ dur # None
           /\ dur[1] < filters.min_duration[1]
        THEN Decision(TRUE, "duracao menor")
        ELSE IF Truthy(filters.max_duration) /\ dur # None
                /\ dur[1] > filters.max_duration[1]
        THEN Decision(TRUE, "duracao maior")
        ELSE IF filters.date_from # None /\ upload_date # None
                /\ upload_date[1] < filters.date_from[1]
        THEN Decision(TRUE, "upload_date antes do limite")
        ELSE IF filters.date_to # None /\ upload_date # None
                /\ upload_date[1] > filters.date_to[1]
        THEN Decision(TRUE, "upload_date depois do limite")
        ELSE IF match_title # <<>>
        THEN IF filters.match_regex
             THEN IF re_error(match_title)
                  THEN IF ~Contains(lower(title), lower(match_title))
                       THEN Decision(TRUE, "titulo nao contem substring")
                       ELSE Decision(FALSE, "ok")
                  ELSE IF ~re_search(match_title, title)
                       THEN Decision(TRUE, "titulo nao bate regex")
                       ELSE Decision(FALSE, "ok")
             ELSE IF ~Contains(lower(title), lower(match_title))
                  THEN Decision(TRUE, "titulo nao contem substring")
                  ELSE Decision(FALSE, "ok")
        ELSE Decision(FALSE, "ok")

existing_file_exact(entry, dest, preserve_filename) ==
    IF ~preserve_filename
    THEN glob(dest, entry.id) # {}
    ELSE \E p \in dest :
            p.is_file /\ entry.title # <<>> /\ Contains(p.name, entry.title)

\* Lines 164-177: a file of the destination directory that carries the
\* identifier (default naming) or the title (preserve_filename).
existing_file(entry, dest, preserve_filename) ==
    IF ~preserve_filename
    THEN glob(dest, <<"*">> \o entry.id \o <<"*">>) # {}
    ELSE \E p \in dest :
            p.is_file /\ entry.title # <<>> /\ Contains(p.name, entry.title)

should_skip_entry_no_ledger(entry, filters, downloaded_ids, dest, preserve_filename) ==
    IF entry.id = <<>>
    THEN Decision(FALSE, "sem-id")
    ELSE IF existing_file(entry, dest, preserve_filename)
    THEN Decision(TRUE, "arquivo existente")
    ELSE should_skip_by_rules(entry, filters)

should_skip_entry(entry, filters, downloaded_ids, dest, preserve_filename) ==
    LET vid == entry.id
    IN  IF vid = <<>>
        THEN Decision(FALSE, "sem-id")
        ELSE IF filters.skip_downloaded /\ vid \in downloaded_ids
        THEN Decision(TRUE, "id no DB")
        ELSE IF existing_file(entry, dest, preserve_filename)
        THEN Decision(TRUE,
                      IF preserve_filename
                      THEN "arquivo existente por titulo"
                      ELSE "arquivo existente com id")
        ELSE should_skip_by_rules(entry, filters)

(***************************************************************************)
(* The inputs of one should_skip_entry call.                               *)
(***************************************************************************)
IdChars == {"a", "?"}
TitleChars == {"a", "A"}
PatChars == {"a", ".", "("}

Optional(S) == {None} \cup {Some(v) : v \in S}

Ids == Strings(IdChars, MaxIdLen)
Titles == Strings(TitleChars, 1)
Patterns == Strings(PatChars, 1)

Entries ==
    [id : Ids, title : Titles, duration : Optional(0..(MaxDur + 1)),
     upload_date : Optional(1..MaxDate)]

Filters ==
    [min_duration : Optional(0..MaxDur), max_duration : Optional(0..MaxDur),
     date_from : {None, Some(MaxDate)}, date_to : {None, Some(1)},
     match_title : Patterns, match_regex : BOOLEAN,
     skip_downloaded : BOOLEAN]

\* A ledger the program wrote holds identifiers only (line 306: entry_id is
\* not empty when it is added).
Ledgers == {{}} \cup {{i} : i \in NonEmpty(Ids)}

DirEntries == [name : NonEmpty(Strings(IdChars, MaxNameLen)), is_file : BOOLEAN]
Dests == {{}} \cup {{d} : d \in DirEntries}

VARIABLES entry, filters, downloaded_ids, dest, preserve_filename, decision

varsF == <<entry, filters, downloaded_ids, dest, preserve_filename, decision>>

\* Rule sets with the duration bounds only.
DurationFilters ==
    {f \in Filters : /\ f.date_from = None /\ f.date_to = None
                     /\ f.match_title = <<>> /\ ~f.match_regex}

\* The ledgers and destinations that are empty or hold the identifier of e
\* and nothing else.
PlainLedgers(e) == {{}, {e.id} \ {<<>>}}
PlainDests(e) ==
    {{}} \cup {{[name |-> e.id, is_file |-> TRUE]} : x \in {e.id} \ {<<>>}}

\* Longer titles and title patterns, valid and invalid as regular
\* expressions, in both cases of the letter.
TitleEntries ==
    [id : {<<>>, <<"a">>}, title : Strings(TitleChars \cup {"("}, MaxTitleLen),
     duration : {None}, upload_date : {None}]

TitleFilters ==
    [min_duration : {None}, max_duration : {None}, date_from : {None},
     date_to : {None},
     match_title : NonEmpty(Strings(PatChars \cup {"A"}, MaxTitleLen)),
     match_regex : BOOLEAN, skip_downloaded : BOOLEAN]

\* The inputs of a call: every ledger and destination with every entry that
\* has no upload date and every pair of duration bounds; every rule set
\* with every entry and the plain ledgers and destinations; every title
\* pattern with every title and the plain ledgers and destinations.
InitF ==
    /\ preserve_filename \in BOOLEAN
    /\ \/ /\ entry \in Entries
          /\ entry.upload_date = None
          /\ filters \in DurationFilters
          /\ downloaded_ids \in Ledgers
          /\ dest \in Dests
       \/ /\ entry \in Entries
          /\ filters \in Filters
          /\ downloaded_ids \in PlainLedgers(entry)
          /\ dest \in PlainDests(entry)
       \/ /\ entry \in TitleEntries
          /\ filters \in TitleFilters
          /\ downloaded_ids \in PlainLedgers(entry)
          /\ dest \in PlainDests(entry)
    /\ decision = None

Decide ==
    /\ decision = None
    /\ decision' = Some(should_skip_entry(entry, filters, downloaded_ids, dest,
                                          preserve_filename))
    /\ UNCHANGED <<entry, filters, downloaded_ids, dest, preserve_filename>>

(***************************************************************************)
(* Retry executor: download_with_retries.  One run is a record: pc is the  *)
(* place in the function, attempt its counter, log the download calls and  *)
(* the sleeps it made so far, outcomes how each ydl.download call ended,    *)
(* ret its return value once it returned.                                  *)
(***************************************************************************)
DownloadCall == [op |-> "download", wait |-> 0]
Sleep(wait) == [op |-> "sleep", wait |-> wait]

\* What ydl.download raises in a pool thread: yt-dlp's DownloadError and
\* the errors of the system; all are subclasses of Exception.
Errors == {"DownloadError", "OSError"}

caught_download_error_only(exc) == exc = "DownloadError"

\* Line 217: except Exception.
caught(exc) == exc \in {"DownloadError", "OSError"}

backoff_wait_flat(backoff, attempt) == backoff

\* Line 220.
backoff_wait(backoff, attempt) == backoff * attempt

\* Lines 210-211: the state on entry.
retry_entry ==
    [pc |-> "loop", attempt |-> 0, last_exc |-> None, log |-> <<>>,
     outcomes |-> <<>>, ret |-> None]

\* Line 212, the test holds; lines 213-215: ydl.download is called.
retry_try(r) == [r EXCEPT !.pc = "download", !.log = Append(@, DownloadCall)]

\* Line 212, the test fails; lines 223-224.
retry_exhausted(r) == [r EXCEPT !.pc = "returned", !.ret = Some(FALSE)]

\* Line 216.
retry_success(r) ==
    [r EXCEPT !.pc = "returned", !.ret = Some(TRUE),
              !.outcomes = Append(@, "ok")]

\* Lines 217-222: an error that except Exception catches puts the run
\* inside time.sleep; any other error leaves the function.
retry_except(r, exc, backoff) ==
    LET attempt == r.attempt + 1
    IN  IF caught(exc)
        THEN [r EXCEPT !.pc = "sleep", !.attempt = attempt,
                       !.last_exc = Some(exc),
                       !.outcomes = Append(@, "error"),
                       !.log = Append(@, Sleep(backoff_wait(backoff, attempt)))]
        ELSE [r EXCEPT !.pc = "raised", !.outcomes = Append(@, "error")]

\* time.sleep returned: back to the loop test.
retry_wake(r) == [r EXCEPT !.pc = "loop"]

(***************************************************************************)
(* Dedup ledger: the files, load_db and save_db.                           *)
(***************************************************************************)
DB_FILENAME ==
    <<"d", "o", "w", "n", "l", "o", "a", "d", "e", "d", "_", "i", "d", "s",
      ".", "j", "s", "o", "n">>

Absent == [kind |-> "absent", items |-> <<>>]
\* A file open for writing that json.dump has not finished: not valid JSON.
Partial == [kind |-> "partial", items |-> <<>>]
\* A file that holds something else than JSON.
Garbage == [kind |-> "garbage", items |-> <<>>]
JsonList(items) == [kind |-> "list", items |-> items]
\* A file that holds one JSON string, one JSON number.
JsonString(chars) == [kind |-> "string", items |-> chars]
JsonNumber == [kind |-> "number", items |-> <<>>]

Range(f) == {f[x] : x \in DOMAIN f}

\* list(id_set): the members, each once, in some order.
RECURSIVE list(_)
list(S) ==
    IF S = {} THEN <<>>
    ELSE LET x == CHOOSE y \in S : TRUE IN <<x>> \o list(S \ {x})

tmp_path_in_place(db_path) == db_path

\* Line 77.
tmp_path(db_path) == db_path \o <<".", "t", "m", "p">>

\* Lines 65-73: set(json.load(f)) is the set of the members of a list and
\* the set of the characters of a string; of a number it raises TypeError,
\* which is caught like the error of json.load.
load_db(file) ==
    CASE file.kind = "list" -> Range(file.items)
      [] file.kind = "string" -> {<<c>> : c \in Range(file.items)}
      [] OTHER -> {}

replace_skipped(files, src, dst) == files

\* os.replace(src, dst).
replace(files, src, dst) ==
    IF src = dst THEN files
    ELSE [files EXCEPT ![dst] = files[src], ![src] = Absent]

(***************************************************************************)
(* Request builder: build_ydl_opts of yt_v2.py and the options that        *)
(* baixar_video of yt.py builds.                                           *)
(***************************************************************************)
\* The format selectors of the menus and of the command line, and format
\* identifiers a user types.
BEST ==
    <<"b", "e", "s", "t">>
BEST_AUDIO ==
    <<"b", "e", "s", "t", "a", "u", "d", "i", "o", "/", "b", "e",
      "s", "t">>
BEST_VIDEO_AUDIO ==
    <<"b", "e", "s", "t", "v", "i", "d", "e", "o", "+", "b", "e",
      "s", "t", "a", "u", "d", "i", "o", "/", "b", "e", "s", "t">>
BEST_MP4 ==
    <<"b", "e", "s", "t", "v", "i", "d", "e", "o", "[", "e", "x",
      "t", "=", "m", "p", "4", "]", "+", "b", "e", "s", "t", "a",
      "u", "d", "i", "o", "[", "e", "x", "t", "=", "m", "4", "a",
      "]", "/", "b", "e", "s", "t", "[", "e", "x", "t", "=", "m",
      "p", "4", "]", "/", "b", "e", "s", "t">>
ONLY_AUDIO ==
    <<"b", "e", "s", "t", "a", "u", "d", "i", "o">>
ONLY_VIDEO ==
    <<"b", "e", "s", "t", "v", "i", "d", "e", "o">>
WORST_AUDIO ==
    <<"w", "o", "r", "s", "t", "a", "u", "d", "i", "o">>
ID_PAIR ==
    <<"1", "3", "7", "+", "1", "4", "0">>
ID_AUDIO ==
    <<"1", "4", "0">>
ID_MUXED ==
    <<"2", "2">>

Formats ==
    {<<>>, BEST, BEST_AUDIO, BEST_VIDEO_AUDIO, BEST_MP4, ONLY_AUDIO, ONLY_VIDEO,
     WORST_AUDIO, ID_PAIR, ID_AUDIO, ID_MUXED}

AUDIO == <<"a", "u", "d", "i", "o">>
PLUS == <<"+">>

TEMPLATE_WITH_ID == "%(title)s [%(id)s].%(ext)s"
TEMPLATE_TITLE == "%(title)s.%(ext)s"

\* yt_v2.py lines 132-136, yt.py lines 161-165.
EXTRACT_MP3 ==
    [key |-> "FFmpegExtractAudio", preferredcodec |-> "mp3",
     preferredquality |-> "192"]

\* yt_v2.py lines 117-138. A key the dict does not have is None.
build_ydl_opts(outtmpl, format_id, ffmpeg_path, convert_mp3, quiet, continuedl) ==
    LET opts == [format |-> IF format_id # None /\ format_id[1] # <<>>
                            THEN format_id[1] ELSE BEST,
                 outtmpl |-> outtmpl,
                 noplaylist |-> TRUE,
                 nocheckcertificate |-> TRUE,
                 continuedl |-> Some(continuedl),
                 quiet |-> Some(quiet),
                 ffmpeg_location |-> ffmpeg_path,
                 postprocessors |-> None,
                 merge_output_format |-> None]
    IN  IF convert_mp3
        THEN [opts EXCEPT !.postprocessors = Some(<<EXTRACT_MP3>>),
                          !.format = BEST_AUDIO]
        ELSE opts

\* yt.py lines 148-172.
baixar_video(formato_id, ffmpeg_path, converter_para_mp3) ==
    LET ydl_opts == [format |-> formato_id,
                     outtmpl |-> TEMPLATE_WITH_ID,
                     noplaylist |-> TRUE,
                     nocheckcertificate |-> TRUE,
                     continuedl |-> None,
                     quiet |-> None,
                     ffmpeg_location |-> ffmpeg_path,
                     postprocessors |-> None,
                     merge_output_format |-> None]
    IN  IF converter_para_mp3
        THEN [ydl_opts EXCEPT
                 !.postprocessors = Some(<<EXTRACT_MP3>>),
                 !.format = IF /\ formato_id # BEST_AUDIO
                               /\ ~Contains(lower(formato_id), AUDIO)
                            THEN BEST_AUDIO ELSE formato_id]
        ELSE IF /\ formato_id # <<>>
                /\ \/ Contains(formato_id, ONLY_VIDEO)
                   \/ Contains(formato_id, PLUS)
             THEN [ydl_opts EXCEPT !.merge_output_format = Some("mp4")]
             ELSE ydl_opts

VARIABLES
    call,          \* the builder that is called and its arguments
    opts           \* the options it returned, None before it returned

varsR == <<call, opts>>

\* FFMPEG_PATH is a path or None (yt_v2.py line 37, yt.py line 9).
FfmpegPaths == {None, Some("ffmpeg")}

\* yt_v2.py line 285 and every other call of build_ydl_opts.
BuildCalls ==
    [builder : {"build_ydl_opts"},
     outtmpl : {TEMPLATE_WITH_ID, TEMPLATE_TITLE},
     format_id : {None} \cup {Some(f) : f \in Formats},
     ffmpeg_path : FfmpegPaths,
     convert_mp3 : BOOLEAN, quiet : BOOLEAN, continuedl : BOOLEAN]

\* The calls of baixar_video: formato_id is a string.
BaixarCalls ==
    [builder : {"baixar_video"},
     outtmpl : {TEMPLATE_WITH_ID},
     format_id : {Some(f) : f \in Formats},
     ffmpeg_path : FfmpegPaths,
     convert_mp3 : BOOLEAN, quiet : {FALSE}, continuedl : {FALSE}]

InitR ==
    /\ call \in BuildCalls \cup BaixarCalls
    /\ opts = None

BuildYdlOpts ==
    /\ call.builder = "build_ydl_opts"
    /\ opts = None
    /\ opts' = Some(build_ydl_opts(call.outtmpl, call.format_id, call.ffmpeg_path,
                                   call.convert_mp3, call.quiet, call.continuedl))
    /\ UNCHANGED call

BaixarVideo ==
    /\ call.builder = "baixar_video"
    /\ opts = None
    /\ opts' = Some(baixar_video(call.format_id[1], call.ffmpeg_path,
                                 call.convert_mp3))
    /\ UNCHANGED call

\* No builder is called: the options of the command line's defaults.
IdleR ==
    /\ call = [builder |-> "build_ydl_opts", outtmpl |-> TEMPLATE_WITH_ID,
               format_id |-> Some(BEST_VIDEO_AUDIO), ffmpeg_path |-> None,
               convert_mp3 |-> FALSE, quiet |-> FALSE, continuedl |-> TRUE]
    /\ opts = Some(build_ydl_opts(TEMPLATE_WITH_ID, Some(BEST_VIDEO_AUDIO), None,
                                  FALSE, FALSE, TRUE))

(***************************************************************************)
(* The batch: process_playlist and its workers.                            *)
(***************************************************************************)
VARIABLES
    earlier,       \* the tasks that ended DONE in the run before this one
    resolve_calls, \* how many times extract_info was called (line 234)
    args,          \* the configuration of the run (argparse.Namespace)
    source,        \* what the URL resolves to
    phase,         \* where process_playlist is
    entries,       \* the resolved descriptors
    pos,           \* the entry the filter loop is at
    db_snapshot,   \* downloaded_ids of process_playlist (line 250)
    tasks,         \* per entry: its state in the pool and its worker's run
    collected,     \* how many times as_completed has yielded each future
    db_lock,       \* None, or Some(the task that holds it)
    files,         \* the ledger file and its temporary sibling
    artifacts      \* the names of the downloaded files in dest

varsB == <<earlier, resolve_calls, args, source, phase, entries, pos, db_snapshot, tasks, collected,
           db_lock, files, artifacts>>

vars == <<varsB, varsF, varsR>>

db_path == DB_FILENAME

Paths == {db_path, tmp_path(db_path)}

filters_of_swapped(a) ==
    [min_duration |-> a.max_duration, max_duration |-> a.min_duration,
     date_from |-> a.date_from, date_to |-> a.date_to,
     match_title |-> a.match_title, match_regex |-> a.match_regex,
     skip_downloaded |-> a.skip_downloaded]

\* Lines 252-260.
filters_of(a) ==
    [min_duration |-> a.min_duration, max_duration |-> a.max_duration,
     date_from |-> a.date_from, date_to |-> a.date_to,
     match_title |-> a.match_title, match_regex |-> a.match_regex,
     skip_downloaded |-> a.skip_downloaded]

\* Lines 280-283: the name yt-dlp gives the file of an entry.
outtmpl(e, preserve) ==
    IF preserve THEN e.title \o <<".", "e">>
    ELSE e.title \o <<" ", "[">> \o e.id \o <<"]", ".", "e">>

\* The filter does not look into dest.
listing_not_read == {}

\* What Path(dest) holds: the downloads and the ledger's files.
listing ==
    {[name |-> n, is_file |-> TRUE] : n \in artifacts}
      \cup {[name |-> q, is_file |-> TRUE] :
               q \in {x \in Paths : files[x].kind # "absent"}}

NewTask == [state |-> "NEW", run |-> retry_entry, pc |-> "idle", ids |-> {}]

Running == {k \in DOMAIN tasks : tasks[k].state = "RUNNING"}
\* The entries are submitted before the filter has looked at them.
Pending_or_undecided ==
    {k \in DOMAIN tasks : tasks[k].state \in {"PENDING", "NEW"}}
Pending == {k \in DOMAIN tasks : tasks[k].state = "PENDING"}
\* A future that holds a result (DONE: True, FAILED: False) or an
\* exception (ERROR).
Finished ==
    {k \in DOMAIN tasks : tasks[k].state \in {"DONE", "FAILED", "ERROR"}}
Submitted == {k \in DOMAIN tasks : tasks[k].state \notin {"NEW", "SKIPPED"}}

Alive == phase \notin {"crashed"}

lock_not_checked(lock) == TRUE

\* Line 307: threading.Lock is acquired only while nobody holds it.
lock_acquirable(lock) == lock = None

Task(k) == tasks[k]

SetTask(k, t) == [tasks EXCEPT ![k] = t]

(***************************************************************************)
(* process_playlist, the main thread.                                      *)
(***************************************************************************)
\* extract_info is called once more after its first failure.
ResolveFails_retries ==
    /\ phase = "resolving"
    /\ resolve_calls' = resolve_calls + 1
    /\ phase' = IF resolve_calls = 0 THEN "resolving" ELSE "aborted"
    /\ UNCHANGED <<varsF, varsR, earlier, args, source, entries, pos, db_snapshot, tasks, collected,
                   db_lock, files, artifacts>>

\* Lines 232-236: extract_info raises; the error is logged, the batch ends.
ResolveFails ==
    /\ phase = "resolving"
    /\ resolve_calls' = resolve_calls + 1
    /\ phase' = "aborted"
    /\ UNCHANGED <<varsF, varsR, earlier, args, source, entries, pos, db_snapshot, tasks, collected,
                   db_lock, files, artifacts>>

\* The entries are resolved and the ledger is not looked at.
ResolveOk_no_load ==
    /\ phase = "resolving"
    /\ phase' = "filtering"
    /\ entries' = source
    /\ pos' = 1
    /\ db_snapshot' = {}
    /\ tasks' = [k \in 1..Len(source) |-> NewTask]
    /\ collected' = [k \in 1..Len(source) |-> 0]
    /\ resolve_calls' = resolve_calls + 1
    /\ UNCHANGED <<varsF, varsR, earlier, args, source, db_lock, files, artifacts>>

\* Lines 233-260: the entries are resolved and the ledger is loaded.
ResolveOk ==
    /\ phase = "resolving"
    /\ phase' = "filtering"
    /\ entries' = source
    /\ pos' = 1
    /\ db_snapshot' = load_db(files[db_path])
    /\ tasks' = [k \in 1..Len(source) |-> NewTask]
    /\ collected' = [k \in 1..Len(source) |-> 0]
    /\ resolve_calls' = resolve_calls + 1
    /\ UNCHANGED <<varsF, varsR, earlier, args, source, db_lock, files, artifacts>>

\* Lines 265-288: one turn of the loop over the entries; a kept entry is
\* submitted to the pool.
FilterEntry ==
    /\ phase = "filtering"
    /\ pos <= Len(entries)
    /\ LET d == should_skip_entry(entries[pos], filters_of(args), db_snapshot,
                                  listing, args.preserve_filename)
       IN  tasks' = [tasks EXCEPT
                        ![pos].state = IF d.skip THEN "SKIPPED" ELSE "PENDING"]
    /\ pos' = pos + 1
    /\ UNCHANGED <<varsF, varsR, earlier, resolve_calls, args, source, phase, entries, db_snapshot, collected,
                   db_lock, files, artifacts>>

\* The loop over the entries is over: line 291.
FilterDone ==
    /\ phase = "filtering"
    /\ pos > Len(entries)
    /\ phase' = "reporting"
    /\ UNCHANGED <<varsF, varsR, earlier, resolve_calls, args, source, entries, pos, db_snapshot, tasks, collected,
                   db_lock, files, artifacts>>

\* Lines 291-300: as_completed yields a finished future, whose result is
\* logged.
Collect(k) ==
    /\ phase = "reporting"
    /\ k \in Finished
    /\ collected[k] = 0
    /\ collected' = [collected EXCEPT ![k] = @ + 1]
    /\ UNCHANGED <<varsF, varsR, earlier, resolve_calls, args, source, phase, entries, pos, db_snapshot, tasks,
                   db_lock, files, artifacts>>

as_completed_not_awaited(yielded, futures) == TRUE

\* Line 291: the loop over as_completed ends when every submitted future was
\* yielded.
as_completed_exhausted(yielded, futures) == \A k \in futures : yielded[k] > 0

\* as_completed is exhausted and the pool is shut down: process_playlist
\* returns.
Complete ==
    /\ phase = "reporting"
    /\ as_completed_exhausted(collected, Submitted)
    /\ phase' = "complete"
    /\ UNCHANGED <<varsF, varsR, earlier, resolve_calls, args, source, entries, pos, db_snapshot, tasks, collected,
                   db_lock, files, artifacts>>

(***************************************************************************)
(* The pool and worker_download_entry.                                     *)
(***************************************************************************)
\* Lines 263-300: the threads of the pool take the queued tasks while the
\* main thread is in the with block and while it leaves it, by an exception
\* too: the exit of the block is shutdown(wait=True), which cancels nothing.
pool_serving(p) == p \in {"filtering", "reporting", "interrupted"}

pool_thread_free_unbounded(running, max_workers) == TRUE

\* Line 263: the pool has max_workers threads; one of them is idle.
pool_thread_free(running, max_workers) == Cardinality(running) < max_workers

\* ThreadPoolExecutor(max_workers=parallel): a thread takes the oldest
\* submitted task.
Start(k) ==
    /\ Alive
    /\ pool_serving(phase)
    /\ k \in Pending
    /\ \A j \in Pending : k <= j
    /\ pool_thread_free(Running, args.parallel)
    /\ tasks' = SetTask(k, [Task(k) EXCEPT !.state = "RUNNING", !.pc = "retry",
                                           !.run = retry_entry])
    /\ UNCHANGED <<varsF, varsR, earlier, resolve_calls, args, source, phase, entries, pos, db_snapshot, collected,
                   db_lock, files, artifacts>>

InRetry(k, at) ==
    /\ Alive
    /\ k \in Running
    /\ Task(k).pc = "retry"
    /\ Task(k).run.pc = at

\* Line 212 holds, line 215 is entered.
Try(k) ==
    /\ InRetry(k, "loop")
    /\ Task(k).run.attempt < args.retries
    /\ tasks' = SetTask(k, [Task(k) EXCEPT !.run = retry_try(@)])
    /\ UNCHANGED <<varsF, varsR, earlier, resolve_calls, args, source, phase, entries, pos, db_snapshot, collected,
                   db_lock, files, artifacts>>

\* A worker whose last attempt failed records its identifier all the same.
Exhausted_records(k) ==
    /\ InRetry(k, "loop")
    /\ ~(Task(k).run.attempt < args.retries)
    /\ tasks' = SetTask(k, [Task(k) EXCEPT !.run = retry_exhausted(@),
                                           !.pc = "acquire"])
    /\ UNCHANGED <<varsF, varsR, earlier, resolve_calls, args, source, phase, entries,
                   pos, db_snapshot, collected, db_lock, files, artifacts>>

\* A worker whose last attempt failed ends the batch.
Exhausted_aborts(k) ==
    /\ InRetry(k, "loop")
    /\ ~(Task(k).run.attempt < args.retries)
    /\ tasks' = SetTask(k, [Task(k) EXCEPT !.run = retry_exhausted(@),
                                           !.state = "FAILED",
                                           !.pc = "returned"])
    /\ phase' = "aborted"
    /\ UNCHANGED <<varsF, varsR, earlier, resolve_calls, args, source, entries, pos, db_snapshot, collected,
                   db_lock, files, artifacts>>

\* Line 212 fails: download_with_retries returns False, and so does the
\* worker (lines 306, 311).
Exhausted(k) ==
    /\ InRetry(k, "loop")
    /\ ~(Task(k).run.attempt < args.retries)
    /\ tasks' = SetTask(k, [Task(k) EXCEPT !.run = retry_exhausted(@),
                                           !.state = "FAILED",
                                           !.pc = "returned"])
    /\ UNCHANGED <<varsF, varsR, earlier, resolve_calls, args, source, phase, entries, pos, db_snapshot, collected,
                   db_lock, files, artifacts>>

\* ydl.download returns: the file is in dest, download_with_retries returns
\* True; line 306 decides whether the ledger is written.
DownloadOk(k) ==
    /\ InRetry(k, "download")
    /\ artifacts' = artifacts \cup {outtmpl(entries[k], args.preserve_filename)}
    /\ tasks' = SetTask(k,
          IF entries[k].id # <<>>
          THEN [Task(k) EXCEPT !.run = retry_success(@), !.pc = "acquire"]
          ELSE [Task(k) EXCEPT !.run = retry_success(@), !.state = "DONE",
                               !.pc = "returned"])
    /\ UNCHANGED <<varsF, varsR, earlier, resolve_calls, args, source, phase, entries, pos, db_snapshot, collected,
                   db_lock, files>>

\* ydl.download raises: lines 217-222.
DownloadRaises(k) ==
    /\ InRetry(k, "download")
    /\ \E exc \in Errors :
          LET r == retry_except(Task(k).run, exc, args.backoff)
          IN  tasks' = SetTask(k,
                 IF r.pc = "raised"
                 THEN [Task(k) EXCEPT !.run = r, !.state = "ERROR",
                                      !.pc = "raised"]
                 ELSE [Task(k) EXCEPT !.run = r])
    /\ UNCHANGED <<varsF, varsR, earlier, resolve_calls, args, source, phase, entries, pos, db_snapshot, collected,
                   db_lock, files, artifacts>>

\* time.sleep returns.
Wake(k) ==
    /\ InRetry(k, "sleep")
    /\ tasks' = SetTask(k, [Task(k) EXCEPT !.run = retry_wake(@)])
    /\ UNCHANGED <<varsF, varsR, earlier, resolve_calls, args, source, phase, entries, pos, db_snapshot, collected,
                   db_lock, files, artifacts>>

At(k, pc) == Alive /\ k \in Running /\ Task(k).pc = pc

\* Line 307: with db_lock.
Acquire(k) ==
    /\ At(k, "acquire")
    /\ lock_acquirable(db_lock)
    /\ db_lock' = Some(k)
    /\ tasks' = SetTask(k, [Task(k) EXCEPT !.pc = "load"])
    /\ UNCHANGED <<varsF, varsR, earlier, resolve_calls, args, source, phase, entries, pos, db_snapshot, collected,
                   files, artifacts>>

\* Lines 308-309: ids = load_db(db_path); ids.add(entry_id).
Load(k) ==
    /\ At(k, "load")
    /\ tasks' = SetTask(k, [Task(k) EXCEPT
                               !.ids = load_db(files[db_path]) \cup {entries[k].id},
                               !.pc = "open"])
    /\ UNCHANGED <<varsF, varsR, earlier, resolve_calls, args, source, phase, entries, pos, db_snapshot, collected,
                   db_lock, files, artifacts>>

\* Line 79: open(tmp, "w") creates or truncates the temporary file.
OpenTmp(k) ==
    /\ At(k, "open")
    /\ files' = [files EXCEPT ![tmp_path(db_path)] = Partial]
    /\ tasks' = SetTask(k, [Task(k) EXCEPT !.pc = "dump"])
    /\ UNCHANGED <<varsF, varsR, earlier, resolve_calls, args, source, phase, entries, pos, db_snapshot, collected,
                   db_lock, artifacts>>

\* Line 80 and the end of the with block: the list is written and the file
\* closed.
Dump(k) ==
    /\ At(k, "dump")
    /\ files' = [files EXCEPT ![tmp_path(db_path)] = JsonList(list(Task(k).ids))]
    /\ tasks' = SetTask(k, [Task(k) EXCEPT !.pc = "replace"])
    /\ UNCHANGED <<varsF, varsR, earlier, resolve_calls, args, source, phase, entries, pos, db_snapshot, collected,
                   db_lock, artifacts>>

\* Line 81: os.replace(tmp, db_path).
Replace(k) ==
    /\ At(k, "replace")
    /\ files' = replace(files, tmp_path(db_path), db_path)
    /\ tasks' = SetTask(k, [Task(k) EXCEPT !.pc = "release"])
    /\ UNCHANGED <<varsF, varsR, earlier, resolve_calls, args, source, phase, entries, pos, db_snapshot, collected,
                   db_lock, artifacts>>

\* The end of the with db_lock block and line 311.
Release(k) ==
    /\ At(k, "release")
    /\ db_lock' = None
    /\ tasks' = SetTask(k, [Task(k) EXCEPT !.state = "DONE", !.pc = "returned"])
    /\ UNCHANGED <<varsF, varsR, earlier, resolve_calls, args, source, phase, entries, pos, db_snapshot, collected,
                   files, artifacts>>

(***************************************************************************)
(* The environment: the process is killed; a write of save_db fails.       *)
(***************************************************************************)
\* The memory of the process is gone; the files stay as they are.
Crash ==
    /\ phase \in {"filtering", "reporting"}
    /\ phase' = "crashed"
    /\ entries' = <<>>
    /\ pos' = 1
    /\ db_snapshot' = {}
    /\ tasks' = <<>>
    /\ collected' = <<>>
    /\ db_lock' = None
    /\ UNCHANGED <<varsF, varsR, earlier, resolve_calls, args, source, files, artifacts>>

\* Lines 82-83: open, json.dump or os.replace raises; the error is logged
\* and save_db returns.
SaveFails(k) ==
    /\ Alive
    /\ k \in Running
    /\ Task(k).pc \in {"open", "dump", "replace"}
    /\ tasks' = SetTask(k, [Task(k) EXCEPT !.pc = "release"])
    /\ UNCHANGED <<varsF, varsR, earlier, resolve_calls, args, source, phase, entries, pos, db_snapshot, collected,
                   db_lock, files, artifacts>>

(***************************************************************************)
(* The initial states and the specifications.                              *)
(***************************************************************************)
\* Lines 368-387; skip_downloaded is store_true with default True.
BaseArgs ==
    [parallel |-> DefaultParallel, retries |-> DefaultRetries,
     backoff |-> DefaultBackoff, preserve_filename |-> FALSE,
     min_duration |-> None, max_duration |-> None, date_from |-> None,
     date_to |-> None, match_title |-> <<>>, match_regex |-> FALSE,
     skip_downloaded |-> TRUE]

BatchEntries ==
    [id : {<<>>, <<"x">>, <<"y">>}, title : {<<"t">>},
     duration : {None, Some(1), Some(2)}, upload_date : {None}]

PoolEntries == {e \in BatchEntries : e.id # <<>> /\ e.duration = Some(1)}

\* A pool of several workers on a playlist of videos that pass the rules.
PoolArgs ==
    {[BaseArgs EXCEPT !.parallel = p, !.retries = 1] : p \in 1..MaxParallel}

PoolSources == UNION {[1..n -> PoolEntries] : n \in 1..MaxEntries}

PoolLedgers == {Absent, JsonList(<<<<"x">>>>)}

\* The default single worker on every playlist, with a maximal duration
\* that is no bound (0) and one that is.
SerialArgs ==
    {[BaseArgs EXCEPT !.retries = 1, !.max_duration = m] :
        m \in {Some(0), Some(1)}}

\* A video of every duration, a second one of a known duration, and one
\* without identifier that is above the maximal duration.
SerialEntries ==
    {e \in BatchEntries : \/ e.id = <<"x">>
                          \/ e.id = <<"y">> /\ e.duration # None
                          \/ e.id = <<>> /\ e.duration = Some(2)}

SerialSources == UNION {[1..n -> SerialEntries] : n \in 1..MaxEntries}

\* One video, every retry count and backoff.
RetryArgs ==
    {[BaseArgs EXCEPT !.retries = r, !.backoff = b] :
        r \in 0..MaxRetries, b \in 0..MaxBackoff}

RetrySources ==
    {<<[id |-> i, title |-> <<"t">>, duration |-> None, upload_date |-> None]>> :
        i \in {<<>>, <<"x">>}}

InitialLedgers == {Absent, Garbage, JsonList(<<<<"x">>>>)}

\* The ledgers of the one-video batches: also JSON that is not a list.
RetryLedgers == InitialLedgers \cup {JsonString(<<"x">>), JsonNumber}

IdleF ==
    /\ entry = [id |-> <<>>, title |-> <<>>, duration |-> None,
                upload_date |-> None]
    /\ filters = filters_of(BaseArgs)
    /\ downloaded_ids = {}
    /\ dest = {}
    /\ preserve_filename = FALSE
    /\ decision = Some(Decision(FALSE, "sem-id"))

InitB ==
    /\ earlier = None
    /\ resolve_calls = 0
    /\ \E ledger \in RetryLedgers :
          /\ \/ /\ args \in PoolArgs
                /\ source \in PoolSources
                /\ ledger \in PoolLedgers
             \/ /\ args \in SerialArgs
                /\ source \in SerialSources
                /\ ledger = Absent
             \/ args \in RetryArgs /\ source \in RetrySources
          /\ files = [q \in Paths |-> IF q = db_path THEN ledger ELSE Absent]
    /\ phase = "resolving"
    /\ entries = <<>>
    /\ pos = 1
    /\ db_snapshot = {}
    /\ tasks = <<>>
    /\ collected = <<>>
    /\ db_lock = None
    /\ artifacts = {}

IdleB ==
    /\ earlier = None
    /\ resolve_calls = 1
    /\ args = BaseArgs
    /\ source = <<>>
    /\ phase = "complete"
    /\ entries = <<>>
    /\ pos = 1
    /\ db_snapshot = {}
    /\ tasks = <<>>
    /\ collected = <<>>
    /\ db_lock = None
    /\ files = [q \in Paths |-> Absent]
    /\ artifacts = {}

Init == InitB /\ IdleF /\ IdleR

\* The steps of the program.
Run ==
    \/ ResolveFails
    \/ ResolveOk
    \/ FilterEntry
    \/ FilterDone
    \/ \E k \in DOMAIN tasks : Collect(k)
    \/ Complete
    \/ \E k \in DOMAIN tasks : Start(k)
    \/ \E k \in DOMAIN tasks : Try(k)
    \/ \E k \in DOMAIN tasks : Exhausted(k)
    \/ \E k \in DOMAIN tasks : DownloadOk(k)
    \/ \E k \in DOMAIN tasks : DownloadRaises(k)
    \/ \E k \in DOMAIN tasks : Wake(k)
    \/ \E k \in DOMAIN tasks : Acquire(k)
    \/ \E k \in DOMAIN tasks : Load(k)
    \/ \E k \in DOMAIN tasks : OpenTmp(k)
    \/ \E k \in DOMAIN tasks : Dump(k)
    \/ \E k \in DOMAIN tasks : Replace(k)
    \/ \E k \in DOMAIN tasks : Release(k)

Next == Run \/ Crash

\* The batch on a file system whose writes succeed.
Spec == Init /\ [][Next]_vars

\* KeyboardInterrupt is raised in the main thread inside the with block of
\* line 263: the block is left through the shutdown of the pool, which waits
\* for the threads.
Interrupt ==
    /\ phase \in {"filtering", "reporting"}
    /\ phase' = "interrupted"
    /\ UNCHANGED <<varsF, varsR, earlier, resolve_calls, args, source, entries, pos, db_snapshot, tasks,
                   collected, db_lock, files, artifacts>>

\* The threads of the pool have ended: the interrupt leaves process_playlist
\* and is logged by lines 422-423.
Stopped ==
    /\ phase = "interrupted"
    /\ Pending = {} /\ Running = {}
    /\ phase' = "stopped"
    /\ UNCHANGED <<varsF, varsR, earlier, resolve_calls, args, source, entries, pos, db_snapshot, tasks,
                   collected, db_lock, files, artifacts>>

NextInterrupt == Run \/ Interrupt \/ Stopped

\* The batch of a process whose user may press Ctrl-C.
SpecInterrupt == Init /\ [][NextInterrupt]_vars

\* The program is run once more with the same arguments on the same
\* destination: the memory of the first run is gone, its files are there.
Rerun ==
    /\ phase = "complete"
    /\ earlier = None
    /\ earlier' = Some({k \in DOMAIN tasks : Task(k).state = "DONE"})
    /\ phase' = "resolving"
    /\ resolve_calls' = 0
    /\ entries' = <<>>
    /\ pos' = 1
    /\ db_snapshot' = {}
    /\ tasks' = <<>>
    /\ collected' = <<>>
    /\ UNCHANGED <<varsF, varsR, args, source, db_lock, files, artifacts>>

NextRerun == Run \/ Rerun

\* The pools and the one-video batches.
InitRerun == Init /\ args \in PoolArgs \cup RetryArgs

\* Two runs of the same batch, one after the other.
SpecRerun == InitRerun /\ [][NextRerun]_vars

\* The batch of a pool in a process that is not killed: the main thread and
\* the pool threads keep being scheduled, and every call of ydl.download and
\* of time.sleep comes back.
InitLive == Init /\ args \in PoolArgs

SpecLive == InitLive /\ [][Run]_vars /\ WF_vars(Run)

NextFaults == Next \/ \E k \in DOMAIN tasks : SaveFails(k)

\* The batch on a file system whose writes may fail.
SpecFaults == Init /\ [][NextFaults]_vars

InitFilter == InitF /\ IdleB /\ IdleR

NextF == Decide /\ UNCHANGED <<varsB, varsR>>

\* One call of should_skip_entry on every input of the bounds.
SpecFilter == InitFilter /\ [][NextF]_vars

InitRequest == InitR /\ IdleB /\ IdleF

NextR == (BuildYdlOpts \/ BaixarVideo) /\ UNCHANGED <<varsB, varsF>>

\* One call of a request builder on every format and every flag.
SpecRequest == InitRequest /\ [][NextR]_vars

(***************************************************************************)
(* Properties of the ledger under concurrent workers.                      *)
(***************************************************************************)
InLedgerSection(k) ==
    Task(k).pc \in {"load", "open", "dump", "replace", "release"}

\* The identifiers of the workers that returned after recording.
RecordedIds ==
    {entries[k].id : k \in {j \in DOMAIN tasks : /\ tasks[j].state = "DONE"
                                                   /\ entries[j].id # <<>>}}

\* C1: no lost updates. Whenever no worker is running, the ledger file
\* holds exactly what it held when the batch started plus the identifier of
\* every worker whose download succeeded, whatever the interleaving of the
\* workers was.
NoLostUpdates ==
    (phase \in {"filtering", "reporting", "complete"} /\ Running = {})
        => load_db(files[db_path]) = db_snapshot \cup RecordedIds

\* Two workers of a pool of at least two threads recorded distinct
\* identifiers and the batch has ended.
NoLostUpdatesWitness ==
    /\ phase = "complete"
    /\ args.parallel >= 2
    /\ \E j, k \in DOMAIN tasks :
          /\ j # k
          /\ tasks[j].state = "DONE" /\ tasks[k].state = "DONE"
          /\ entries[j].id # <<>> /\ entries[k].id # <<>>
          /\ entries[j].id # entries[k].id
          /\ {entries[j].id, entries[k].id} \subseteq load_db(files[db_path])

\* C2: mutual exclusion of the ledger write path. At most one worker is
\* between its load of the ledger and the end of its save, and that worker
\* holds db_lock.
LedgerMutualExclusion ==
    \A j, k \in DOMAIN tasks :
        (InLedgerSection(j) /\ InLedgerSection(k))
            => (j = k /\ db_lock = Some(j))

\* One worker is saving the ledger while another one, whose download
\* succeeded too, waits for the lock.
LedgerContended ==
    \E j, k \in DOMAIN tasks :
        /\ j # k
        /\ Task(j).pc = "dump"
        /\ Task(k).pc = "acquire"
        /\ k \in Running

\* C3: crash-safe persistence. No step, of any worker, under any failure of
\* a write, leaves a partially written file at the ledger path: a step
\* either leaves the ledger file as it was or is the rename that installs
\* the complete list the renaming worker saved.
CrashSafeLedger ==
    [][/\ files'[db_path].kind # "partial"
       /\ \/ files'[db_path] = files[db_path]
          \/ \E k \in DOMAIN tasks :
                /\ Task(k).pc = "replace"
                /\ files'[db_path] = JsonList(list(Task(k).ids))]_vars

\* The process was killed between the write of the temporary file and the
\* rename: the ledger still reads as it did when the batch started.
CrashBeforeRename ==
    /\ phase = "crashed"
    /\ files[tmp_path(db_path)] = JsonList(list({<<"x">>, <<"y">>}))
    /\ files[db_path] = JsonList(<<<<"x">>>>)

\* C4: ledger round trip. When a worker's save_db has returned (the worker
\* still holds the lock), load_db of the ledger path gives the set that was
\* saved, and the worker's identifier is in it.
LedgerRoundTrip ==
    \A k \in DOMAIN tasks :
        Task(k).pc = "release"
            => /\ load_db(files[db_path]) = Task(k).ids
               /\ entries[k].id \in load_db(files[db_path])

\* A record on top of a ledger that held another identifier.
LedgerRoundTripWitness ==
    \E k \in DOMAIN tasks :
        /\ Task(k).pc = "release"
        /\ entries[k].id = <<"y">>
        /\ load_db(files[db_path]) = {<<"x">>, <<"y">>}

(***************************************************************************)
(* Properties of the retry executor.                                       *)
(***************************************************************************)
Calls(log) == Cardinality({i \in DOMAIN log : log[i].op = "download"})

IsSleep(e) == e.op = "sleep"

Sleeps(log) == SelectSeq(log, IsSleep)

\* The first n - 1 calls of a run failed and call n succeeded.
SucceededAt(r, n) ==
    /\ Len(r.outcomes) = n
    /\ r.outcomes[n] = "ok"
    /\ \A i \in 1..(n - 1) : r.outcomes[i] = "error"

\* C5: retry success path. For every N in 1..retries, a run whose first N-1
\* download calls failed and whose N-th call succeeded returned True, made
\* exactly N download calls and slept exactly N-1 times, the k-th time for
\* backoff * k seconds.
RetrySuccessPath ==
    \A k \in DOMAIN tasks : \A n \in 1..args.retries :
        SucceededAt(Task(k).run, n)
            => /\ Task(k).run.ret = Some(TRUE)
               /\ Calls(Task(k).run.log) = n
               /\ Len(Sleeps(Task(k).run.log)) = n - 1
               /\ \A i \in 1..(n - 1) :
                     Sleeps(Task(k).run.log)[i].wait = args.backoff * i

\* The third call of a run succeeded, with a backoff that is not zero.
ThirdAttemptSucceeds ==
    \E k \in DOMAIN tasks :
        /\ SucceededAt(Task(k).run, 3)
        /\ args.backoff >= 2
        /\ Task(k).state = "DONE"

\* C6: retry exhaustion. A run all of whose download calls failed made
\* exactly `retries` calls before it returned False, and each of its sleeps
\* is followed by another download call: none follows the last failed call.
NoSleepAfterLastAttempt ==
    \A k \in DOMAIN tasks :
        LET r == Task(k).run
        IN  (r.pc = "returned" /\ r.ret = Some(FALSE))
                => /\ Calls(r.log) = args.retries
                   /\ \A i \in DOMAIN r.log :
                         IsSleep(r.log[i])
                             => /\ i < Len(r.log)
                                /\ r.log[i + 1].op = "download"

\* C7: no error of a download call leaves download_with_retries. A run
\* never ends in an error: once it is over it has returned a boolean, and
\* the future of its worker holds True (DONE) or False (FAILED), never an
\* exception.
NoErrorEscapes ==
    \A k \in DOMAIN tasks :
        /\ Task(k).run.pc # "raised"
        /\ Task(k).state # "ERROR"
        /\ Task(k).run.pc = "returned"
              => Task(k).run.ret \in {Some(TRUE), Some(FALSE)}
        /\ k \in Finished
              => /\ Task(k).run.pc = "returned"
                 /\ Task(k).state =
                       IF Task(k).run.ret = Some(TRUE) THEN "DONE" ELSE "FAILED"

\* Every call of a run raised, the last one an OSError, and the worker
\* ended FAILED.
FailedAfterErrors ==
    \E k \in DOMAIN tasks :
        /\ Task(k).state = "FAILED"
        /\ Len(Task(k).run.outcomes) >= 2
        /\ Task(k).run.last_exc = Some("OSError")

(***************************************************************************)
(* Properties of the entry filter.                                         *)
(***************************************************************************)
Decided == decision # None

\* A file of dest whose name embeds the identifier of the entry.
FileEmbedsId ==
    /\ entry.id # <<>>
    /\ \E p \in dest : p.is_file /\ Contains(p.name, entry.id)

\* The duration of the entry is known and outside [min, max], both being
\* given.
DurationOutside ==
    /\ entry.duration # None
    /\ filters.min_duration # None
    /\ filters.max_duration # None
    /\ \/ entry.duration[1] < filters.min_duration[1]
       \/ entry.duration[1] > filters.max_duration[1]

\* C8: an entry whose identifier is in the ledger snapshot is skipped when
\* ledger dedup is enabled, whatever the bounds, the title pattern, the
\* naming mode and the destination hold.
LedgerHitSkips ==
    (Decided /\ filters.skip_downloaded /\ entry.id \in downloaded_ids)
        => decision[1].skip

\* A ledger hit with nothing else that would skip the entry: no file in
\* dest, no bound, no title pattern.
LedgerHitWitness ==
    /\ Decided
    /\ filters.skip_downloaded
    /\ entry.id \in downloaded_ids
    /\ dest = {}
    /\ filters.min_duration = None /\ filters.max_duration = None
    /\ filters.date_from = None /\ filters.date_to = None
    /\ filters.match_title = <<>>
    /\ decision[1] = Decision(TRUE, "id no DB")

\* C9 as stated: an entry whose known duration is outside [min, max], both
\* set, is skipped regardless of its other fields (an absent identifier
\* included) and of the values of the bounds.
DurationOutsideSkips ==
    (Decided /\ DurationOutside) => decision[1].skip

\* C9, amended: an entry that has an identifier and whose known duration is
\* below min_duration or above a max_duration that is not zero, both bounds
\* being set, is skipped regardless of its other fields.
DurationOutsideSkipsWithId ==
    (/\ Decided
     /\ DurationOutside
     /\ entry.id # <<>>
     /\ \/ entry.duration[1] < filters.min_duration[1]
        \/ filters.max_duration[1] # 0) => decision[1].skip

\* An entry longer than max_duration that nothing else would skip.
DurationOutsideWitness ==
    /\ Decided
    /\ DurationOutside
    /\ entry.id # <<>>
    /\ entry.duration[1] >= filters.min_duration[1]
    /\ entry.duration[1] > filters.max_duration[1]
    /\ downloaded_ids # {}
    /\ dest # {}
    /\ decision[1] = Decision(TRUE, "duracao maior")

\* C10 as stated: an entry is skipped whenever dest holds a file whose name
\* embeds its identifier, in both naming modes, with or without ledger
\* dedup.
FileWithIdSkips ==
    (Decided /\ FileEmbedsId) => decision[1].skip

\* C10, amended: with the default naming (preserve_filename off) an entry is
\* skipped whenever dest holds a file whose name embeds its identifier,
\* with or without ledger dedup and whatever the ledger holds.
FileWithIdSkipsDefaultNaming ==
    (Decided /\ FileEmbedsId /\ ~preserve_filename) => decision[1].skip

\* The name of the file is longer than the identifier it embeds; ledger
\* dedup is off and the ledger is empty.
FileWithIdWitness ==
    /\ Decided
    /\ ~preserve_filename
    /\ ~filters.skip_downloaded
    /\ downloaded_ids = {}
    /\ \E p \in dest :
          p.is_file /\ Contains(p.name, entry.id) /\ Len(p.name) > Len(entry.id)
    /\ entry.id = <<"a">>
    /\ decision[1] = Decision(TRUE, "arquivo existente com id")

\* The title pattern is not a valid regular expression and regex mode is
\* on.
InvalidRegex ==
    /\ filters.match_title # <<>>
    /\ filters.match_regex
    /\ re_error(filters.match_title)

\* No rule before the title rule skips or keeps the entry.
TitleRuleDecides ==
    should_skip_entry(entry, [filters EXCEPT !.match_title = <<>>],
                      downloaded_ids, dest, preserve_filename)
        = Decision(FALSE, "ok")

\* C12: in regex mode a title pattern that is not a valid regular expression
\* does not make should_skip_entry fail: the decision is the one of substring
\* mode, and where the title rule decides, the entry is skipped if and only
\* if the lower-cased pattern is not contained in the lower-cased title.
InvalidRegexFallsBack ==
    (Decided /\ InvalidRegex)
        => /\ decision[1] =
                should_skip_entry(entry, [filters EXCEPT !.match_regex = FALSE],
                                  downloaded_ids, dest, preserve_filename)
           /\ TitleRuleDecides
                 => (decision[1].skip
                       <=> ~Contains(lower(entry.title),
                                     lower(filters.match_title)))

\* An invalid pattern that the title contains in the other case of a
\* letter: the entry is kept.
InvalidRegexWitness ==
    /\ Decided /\ InvalidRegex /\ TitleRuleDecides
    /\ ~Contains(entry.title, filters.match_title)
    /\ decision[1] = Decision(FALSE, "ok")

(***************************************************************************)
(* Properties of the filter loop of a batch.                               *)
(***************************************************************************)
\* Only max_duration is set, the ledger read at the start was empty, and the
\* loop over the entries is over.
FilteredByMaxDurationOnly ==
    /\ phase \in {"reporting", "complete"}
    /\ args.max_duration # None
    /\ args.min_duration = None /\ args.date_from = None /\ args.date_to = None
    /\ args.match_title = <<>>
    /\ db_snapshot = {}

TooLong(e) == e.duration # None /\ e.duration[1] > args.max_duration[1]

\* No identifier of the batch occurs in the name of a file that is or comes
\* to be in dest: the download of another entry, the ledger's files.
NoNameCollision ==
    /\ \A k \in DOMAIN entries : entries[k].id # <<>>
    /\ \A j, k \in DOMAIN entries :
          j # k => ~Contains(outtmpl(entries[j], args.preserve_filename),
                             entries[k].id)
    /\ \A k \in DOMAIN entries : \A q \in Paths : ~Contains(q, entries[k].id)

\* C11 as stated: with an empty ledger, an empty destination at the start
\* and only max_duration set, the filter loop skips exactly the entries
\* whose duration is known and greater than max_duration, and keeps all the
\* others.
MaxDurationPartition ==
    FilteredByMaxDurationOnly
        => \A k \in DOMAIN tasks :
              (tasks[k].state = "SKIPPED") <=> TooLong(entries[k])

\* C11, amended: the same for a batch whose entries all have identifiers,
\* none of which occurs in the name of a file of dest, and a max_duration
\* that is not zero.
MaxDurationPartitionWithIds ==
    (FilteredByMaxDurationOnly /\ NoNameCollision /\ Truthy(args.max_duration))
        => \A k \in DOMAIN tasks :
              (tasks[k].state = "SKIPPED") <=> TooLong(entries[k])

\* A batch of two: one entry is too long and skipped, the other has no
\* known duration and was downloaded.
MaxDurationPartitionWitness ==
    /\ FilteredByMaxDurationOnly /\ NoNameCollision
    /\ phase = "complete"
    /\ \E j, k \in DOMAIN tasks :
          /\ TooLong(entries[j]) /\ tasks[j].state = "SKIPPED"
          /\ entries[k].duration = None /\ tasks[k].state = "DONE"

(***************************************************************************)
(* Properties of the start and the end of a batch.                         *)
(***************************************************************************)
\* The filter loop is at its first entry: db_snapshot is what load_db made of
\* the ledger file the batch found.
SnapshotTaken == phase = "filtering" /\ pos = 1

\* C13: load_db fails soft. When the ledger file is absent, unreadable or
\* holds something that is not a list of identifiers, the set load_db gives
\* the filter loop is empty.
LoadDbFailsSoft ==
    (SnapshotTaken /\ files[db_path].kind # "list") => db_snapshot = {}

\* The outcome of task k is the one of its own download calls.
OwnOutcome(k) ==
    LET r == Task(k).run
    IN  \/ /\ Task(k).state = "DONE"
           /\ r.outcomes # <<>> /\ r.outcomes[Len(r.outcomes)] = "ok"
        \/ /\ Task(k).state = "FAILED"
           /\ Len(r.outcomes) = args.retries
           /\ \A i \in DOMAIN r.outcomes : r.outcomes[i] = "error"

WaitsBesideFailure(k) ==
    /\ k \in DOMAIN tasks
    /\ Task(k).state \in {"PENDING", "RUNNING"}
    /\ \E j \in DOMAIN tasks : j # k /\ Task(j).state = "FAILED"

\* C14: sibling isolation. A kept item that is pending or running when
\* another item of the batch has failed for good is dispatched all the same
\* and ends DONE or FAILED on the outcome of its own download calls, and the
\* batch completes.
SiblingIsolation ==
    \A k \in 1..MaxEntries :
        WaitsBesideFailure(k)
            ~> (phase = "complete" /\ k \in DOMAIN tasks /\ OwnOutcome(k))

\* One worker: the first item failed before the second was started, and the
\* second is DONE.
SiblingIsolationWitness ==
    /\ phase = "complete"
    /\ args.parallel = 1
    /\ 2 \in DOMAIN tasks
    /\ Task(1).state = "FAILED"
    /\ Task(2).state = "DONE" /\ OwnOutcome(2)

\* C15: a failure of the one extract_info call aborts the batch. The step
\* that aborts is taken from the resolving phase after exactly one call of
\* extract_info; it leaves no entry, no task and no downloaded file, and the
\* files of the ledger as they were; nothing happens after it.
ResolveFailureAborts ==
    [][/\ phase' = "aborted"
          => /\ phase = "resolving"
             /\ resolve_calls' = 1
             /\ entries' = <<>> /\ tasks' = <<>> /\ artifacts' = {}
             /\ files' = files
       /\ phase = "aborted" => UNCHANGED vars]_vars

\* An aborted batch of a playlist that has a video, beside a ledger.
ResolveFailureWitness ==
    /\ phase = "aborted"
    /\ resolve_calls = 1
    /\ source # <<>>
    /\ files[db_path] = JsonList(<<<<"x">>>>)
    /\ tasks = <<>> /\ artifacts = {}

\* C16: process_playlist returns only when every dispatched item is DONE or
\* FAILED: in a complete batch no item is PENDING or RUNNING, and the
\* outcome of every dispatched item was collected exactly once.
CompleteAfterAll ==
    phase = "complete"
        => /\ Pending = {} /\ Running = {}
           /\ \A k \in Submitted :
                 Task(k).state \in {"DONE", "FAILED"} /\ collected[k] = 1
           /\ \A k \in DOMAIN tasks \ Submitted : collected[k] = 0

\* A complete batch of two dispatched items, one DONE and one FAILED.
CompleteAfterAllWitness ==
    /\ phase = "complete"
    /\ \E j, k \in Submitted :
          /\ Task(j).state = "DONE" /\ Task(k).state = "FAILED"
          /\ collected[j] = 1 /\ collected[k] = 1

(***************************************************************************)
(* Properties of the pool.                                                 *)
(***************************************************************************)
\* C17: bounded concurrency. The number of items a worker is running is
\* never above args.parallel; with the default of one worker no two items
\* run at the same time.
BoundedConcurrency ==
    /\ Cardinality(Running) <= args.parallel
    /\ args.parallel = DefaultParallel
          => \A j, k \in Running : j = k

\* The pool is full: with two workers two items run, and with one worker
\* one item runs while another waits.
BoundedConcurrencyWitness ==
    /\ Cardinality(Running) = args.parallel
    /\ \/ args.parallel = 2
       \/ args.parallel = DefaultParallel /\ Pending # {}

\* C18: cancellation. After the interrupt has reached process_playlist, no
\* item that is still PENDING is started.
NoStartAfterInterrupt ==
    [][phase = "interrupted"
          => \A k \in Pending : tasks'[k].state = "PENDING"]_vars

(***************************************************************************)
(* Properties of a second run of the same batch.                           *)
(***************************************************************************)
SecondRunFiltered ==
    /\ earlier # None
    /\ phase \in {"reporting", "complete"}
    /\ args.skip_downloaded

\* C19 as stated: the second run skips every item that ended DONE in the
\* first run.
SecondRunSkipsDone ==
    SecondRunFiltered
        => \A k \in earlier[1] : Task(k).state = "SKIPPED"

\* C19: the second run of a batch finds in the ledger the identifier of
\* every item that has one and ended DONE in the first run, and skips the
\* item.
SecondRunSkipsDoneWithId ==
    SecondRunFiltered
        => \A k \in earlier[1] :
              entries[k].id # <<>>
                  => entries[k].id \in db_snapshot /\ Task(k).state = "SKIPPED"

\* Two items were downloaded by the first run, which found no ledger, and
\* are skipped by the second.
SecondRunWitness ==
    /\ SecondRunFiltered
    /\ phase = "complete"
    /\ \E j, k \in earlier[1] :
          /\ entries[j].id # <<>> /\ entries[k].id # <<>>
          /\ entries[j].id # entries[k].id
          /\ {entries[j].id, entries[k].id} \subseteq db_snapshot
          /\ Task(j).state = "SKIPPED" /\ Task(k).state = "SKIPPED"

(***************************************************************************)
(* Properties of the request builders.                                     *)
(***************************************************************************)
\* A selector that asks for audio and for no video stream.
AudioOnly(f) ==
    /\ Contains(f, AUDIO)
    /\ ~Contains(f, <<"v", "i", "d", "e", "o">>)
    /\ ~Contains(f, PLUS)

\* C20: when the conversion to MP3 is chosen, the options built carry an
\* audio-only format selector, whatever format was passed, and the
\* FFmpegExtractAudio post-processor for mp3.
Mp3ForcesAudioOnly ==
    (opts # None /\ call.convert_mp3)
        => /\ AudioOnly(opts[1].format)
           /\ opts[1].postprocessors = Some(<<EXTRACT_MP3>>)

\* A selector that names best video plus best audio or has the "+"
\* combinator.
Combined(f) ==
    \/ Contains(f, ONLY_VIDEO) /\ Contains(f, ONLY_AUDIO)
    \/ Contains(f, PLUS)

\* C21: when the conversion to MP3 is not chosen and the format selector is
\* a combined video+audio selector, the options built carry a merge target
\* (merge_output_format).
CombinedHasMergeTarget ==
    (opts # None /\ ~call.convert_mp3 /\ Combined(opts[1].format))
        => opts[1].merge_output_format # None

(***************************************************************************)
(* Properties of the order of a batch.                                     *)
(***************************************************************************)
\* The steps of the main thread from one phase to the next.
PhaseSteps ==
    {<<"resolving", "filtering">>, <<"resolving", "aborted">>,
     <<"filtering", "reporting">>, <<"reporting", "complete">>,
     <<"filtering", "crashed">>, <<"reporting", "crashed">>}

\* Task k is started by this step.
Starts(k) ==
    /\ k \in DOMAIN tasks'
    /\ tasks'[k].state = "RUNNING"
    /\ k \in DOMAIN tasks => tasks[k].state # "RUNNING"

\* C22 as stated: no item is running or has run while a descriptor of the
\* batch still waits for its keep/skip decision.
NoRunBeforeAllDecided ==
    (phase = "filtering" /\ pos <= Len(entries))
        => \A k \in DOMAIN tasks :
              Task(k).state \in {"NEW", "PENDING", "SKIPPED"}

\* C22: the phases of a batch follow one another in the order resolving,
\* filtering (which dispatches each kept descriptor as soon as it is
\* decided), reporting, complete, and no item is started before its own
\* descriptor was decided to be kept.
PhaseOrder ==
    [][/\ phase' # phase => <<phase, phase'>> \in PhaseSteps
       /\ \A k \in 1..MaxEntries :
             Starts(k)
                 => /\ k \in DOMAIN tasks
                    /\ tasks[k].state = "PENDING"
                    /\ \/ phase = "reporting"
                       \/ phase = "filtering" /\ k < pos]_vars

\* An item runs while a later descriptor still waits for its decision.
PhaseOrderWitness ==
    /\ phase = "filtering"
    /\ pos <= Len(entries)
    /\ \E k \in Running : k < pos

(***************************************************************************)
(* Properties of the writes of the ledger.                                 *)
(***************************************************************************)
\* C23: the ledger is written only on success. Every step that changes a
\* file of the ledger is taken by a running worker whose
\* download_with_retries returned True and whose item has an identifier,
\* and it adds no other identifier than this one to the ledger file; a
\* failed item, a skipped item and an item without identifier write
\* nothing.
LedgerWrittenOnSuccess ==
    [][files' # files
          => \E k \in DOMAIN tasks :
                /\ Task(k).state = "RUNNING"
                /\ tasks'[k] # tasks[k]
                /\ Task(k).run.ret = Some(TRUE)
                /\ entries[k].id # <<>>
                /\ load_db(files'[db_path])
                      \subseteq load_db(files[db_path]) \cup {entries[k].id}]_vars

\* A complete batch: the identifier of an item that ended DONE is in the
\* ledger, that of an item that ended FAILED is not.
LedgerWrittenOnSuccessWitness ==
    /\ phase = "complete"
    /\ \E j, k \in DOMAIN tasks :
          /\ Task(j).state = "FAILED" /\ entries[j].id # <<>>
          /\ entries[j].id \notin load_db(files[db_path])
          /\ Task(k).state = "DONE"
          /\ entries[k].id \in load_db(files[db_path]) \ db_snapshot

(***************************************************************************)
(* Properties of a batch that names an identifier twice.                   *)
(***************************************************************************)
\* The descriptors before k that have the identifier of k.
EarlierTwins(k) ==
    {j \in 1..(k - 1) : entries[j].id = entries[k].id /\ entries[k].id # <<>>}

\* C24 as stated: of two descriptors with the same identifier at most one
\* is submitted to the pool.
DispatchedAtMostOnce ==
    \A k \in DOMAIN tasks :
        k \in Submitted => EarlierTwins(k) \cap Submitted = {}

\* C24: a descriptor is not submitted when its identifier is in the ledger
\* snapshot of the batch or when the download of an earlier descriptor with
\* the same identifier has completed; it is submitted beside an earlier one
\* only while that one is pending or downloading.
TwinSubmittedOnlyBeforeDownload ==
    [][\A k \in 1..MaxEntries :
          (/\ k \in DOMAIN tasks /\ k \in DOMAIN tasks'
           /\ tasks[k].state = "NEW" /\ tasks'[k].state = "PENDING"
           /\ entries[k].id # <<>>)
              => /\ entries[k].id \notin db_snapshot
                 /\ \A j \in EarlierTwins(k) :
                       /\ Task(j).run.ret # Some(TRUE)
                       /\ j \in Submitted => Task(j).state \in {"PENDING", "RUNNING", "FAILED"}]_vars

\* A pool of two threads downloads the same identifier twice at the same
\* time.
TwinsRunning ==
    \E k \in Running : EarlierTwins(k) \cap Running # {}

====
